---- MODULE Spec2Model ----
\* A model of InvoiceAnalyzer (src/model_engine.py): the analyze_document
\* pipeline as a state machine, and the five text extractors as operators over
\* texts represented as sequences of one-character strings.
EXTENDS Integers, Sequences, FiniteSets, TLC

VARIABLES
    pc,                 \* position of the running call
    filepath,           \* analyze_document's argument
    img,                \* the image held by the text-extraction stage
    text,               \* the text under analysis
    result,             \* the dict returned by analyze_document
    log,                \* the stages executed by the current call, in order
    currency_symbols,   \* self.currency_symbols
    document_keywords,  \* self.document_keywords
    exc,                \* the exception raised last in the current call
    out                 \* the values printed by test_model.py

vars == <<pc, filepath, img, text, result, log, currency_symbols, document_keywords, exc, out>>

\* ---------------------------------------------------------------- bounds
\* A text is at most MaxLines lines of the line library joined by "\n".
MaxLines == 2

\* ------------------------------------------------------------ characters
Digits == {"0", "1", "2", "3", "4", "5", "6", "7", "8", "9"}

DigitVal ==
    ("0" :> 0) @@ ("1" :> 1) @@ ("2" :> 2) @@ ("3" :> 3) @@ ("4" :> 4) @@
    ("5" :> 5) @@ ("6" :> 6) @@ ("7" :> 7) @@ ("8" :> 8) @@ ("9" :> 9)

\* The characters str.strip(), str.split() and the regex class \s treat as blank.
Whitespace == {" ", "\n", "\t", "\r"}

ToLower ==
    ("A" :> "a") @@ ("B" :> "b") @@ ("C" :> "c") @@ ("D" :> "d") @@ ("E" :> "e") @@
    ("F" :> "f") @@ ("G" :> "g") @@ ("H" :> "h") @@ ("I" :> "i") @@ ("J" :> "j") @@
    ("K" :> "k") @@ ("L" :> "l") @@ ("M" :> "m") @@ ("N" :> "n") @@ ("O" :> "o") @@
    ("P" :> "p") @@ ("Q" :> "q") @@ ("R" :> "r") @@ ("S" :> "s") @@ ("T" :> "t") @@
    ("U" :> "u") @@ ("V" :> "v") @@ ("W" :> "w") @@ ("X" :> "x") @@ ("Y" :> "y") @@
    ("Z" :> "z")

IsDigit(c) == c \in Digits

LowerChar(c) == IF c \in DOMAIN ToLower THEN ToLower[c] ELSE c

\* str.lower()
lower(t) == [i \in 1..Len(t) |-> LowerChar(t[i])]

\* The character at index i, or "" outside the text.
At(t, i) == IF i >= 1 /\ i <= Len(t) THEN t[i] ELSE ""

Min(S) == CHOOSE x \in S : \A y \in S : x <= y

Max(S) == CHOOSE x \in S : \A y \in S : x >= y

\* w occurs in t at index i (case-sensitive).
MatchAt(t, i, w) == \A k \in 1..Len(w) : At(t, i + k - 1) = w[k]

\* w occurs in t at index i under re.IGNORECASE.
MatchAtIgnoreCase(t, i, w) ==
    \A k \in 1..Len(w) : LowerChar(At(t, i + k - 1)) = LowerChar(w[k])

\* Python's `w in t` for strings.
Contains(t, w) == \E i \in 1..(Len(t) - Len(w) + 1) : MatchAt(t, i, w)

\* str.strip()
RECURSIVE lstrip(_)
lstrip(t) == IF t # <<>> /\ Head(t) \in Whitespace THEN lstrip(Tail(t)) ELSE t

RECURSIVE rstrip(_)
rstrip(t) ==
    IF t # <<>> /\ t[Len(t)] \in Whitespace THEN rstrip(SubSeq(t, 1, Len(t) - 1)) ELSE t

strip(t) == rstrip(lstrip(t))

\* str.split(sep) for a one-character separator.
RECURSIVE split(_, _)
split(t, sep) ==
    LET idx == {i \in 1..Len(t) : t[i] = sep}
    IN  IF idx = {} THEN <<t>>
        ELSE <<SubSeq(t, 1, Min(idx) - 1)>> \o split(SubSeq(t, Min(idx) + 1, Len(t)), sep)

\* str.split() without arguments: the maximal runs of non-blank characters.
RECURSIVE split_words(_)
split_words(t) ==
    LET s == lstrip(t)
        ws == {i \in 1..Len(s) : s[i] \in Whitespace}
    IN  IF s = <<>> THEN <<>>
        ELSE IF ws = {} THEN <<s>>
        ELSE <<SubSeq(s, 1, Min(ws) - 1)>> \o split_words(SubSeq(s, Min(ws), Len(s)))

\* sep.join(ls)
RECURSIVE join(_, _)
join(sep, ls) ==
    IF Len(ls) = 0 THEN <<>>
    ELSE IF Len(ls) = 1 THEN ls[1]
    ELSE ls[1] \o sep \o join(sep, Tail(ls))

\* ---------------------------------------------------------------- floats
\* A float parsed from a decimal string is kept exactly, as n * 10^(-e) with
\* e minimal, so that equal values have equal representations.
RECURSIVE Normalize(_, _)
Normalize(n, e) ==
    IF e > 0 /\ n % 10 = 0 THEN Normalize(n \div 10, e - 1) ELSE [n |-> n, e |-> e]

RECURSIVE Pow10(_)
Pow10(k) == IF k = 0 THEN 1 ELSE 10 * Pow10(k - 1)

Float(n) == [n |-> n, e |-> 0]

Greater(a, b) == a.n * Pow10(b.e) > b.n * Pow10(a.e)

\* max() of a non-empty collection of floats.
MaxFloat(S) == CHOOSE a \in S : \A b \in S : ~Greater(b, a)

RECURSIVE DigitsValue(_, _)
DigitsValue(ds, k) == IF k = 0 THEN 0 ELSE 10 * DigitsValue(ds, k - 1) + DigitVal[ds[k]]

\* The strings float() accepts among those the patterns can capture: digits with
\* at most one ".", at least one digit; anything else raises ValueError.
IsFloat(s) ==
    /\ \A i \in 1..Len(s) : IsDigit(s[i]) \/ s[i] = "."
    /\ \E i \in 1..Len(s) : IsDigit(s[i])
    /\ Cardinality({i \in 1..Len(s) : s[i] = "."}) <= 1

float(s) ==
    LET ds == SelectSeq(s, IsDigit)
        dots == {i \in 1..Len(s) : s[i] = "."}
        frac == IF dots = {} THEN 0 ELSE Len(s) - Min(dots)
    IN  Normalize(DigitsValue(ds, Len(ds)), frac)

\* match.group(1).replace(',', '').replace(' ', '')
NotSeparator(c) == c \notin {",", " "}

amount_str(g) == SelectSeq(g, NotSeparator)

\* --------------------------------------------------------------- regexes
\* The number of digits at index i, at most max: \d{1,max} taken greedily.
RECURSIVE DigitRun(_, _, _)
DigitRun(t, i, max) ==
    IF max > 0 /\ IsDigit(At(t, i)) THEN 1 + DigitRun(t, i + 1, max - 1) ELSE 0

\* (?:,\d{3})* from index j: the index after the last group.
RECURSIVE CommaGroups(_, _)
CommaGroups(t, j) ==
    IF At(t, j) = "," /\ DigitRun(t, j + 1, 3) = 3 THEN CommaGroups(t, j + 4) ELSE j

\* (?:\.\d{2})? from index j.
Decimals(t, j) == IF At(t, j) = "." /\ DigitRun(t, j + 1, 2) = 2 THEN j + 3 ELSE j

\* \d{1,3}(?:,\d{3})*(?:\.\d{2})? at a digit at index i: the index after the match.
NumberEnd(t, i) == Decimals(t, CommaGroups(t, i + DigitRun(t, i, 3)))

\* The first index from i on whose character is not in S: a greedy [S]*.
RECURSIVE SkipChars(_, _, _)
SkipChars(t, i, S) == IF At(t, i) \in S THEN SkipChars(t, i + 1, S) ELSE i

NoMatch == <<0, 0>>

\* label[\s:]*\$?\s*(NUMBER), where label is word or word\s*word: the span
\* <<first, last + 1>> of group 1 for a match beginning at index q.
MatchPriority(label, t, q) ==
    LET w1 == q + Len(label[1])
        w2 == SkipChars(t, w1, Whitespace)
        labelled ==
            /\ MatchAtIgnoreCase(t, q, label[1])
            /\ Len(label) = 2 => MatchAtIgnoreCase(t, w2, label[2])
        e == IF Len(label) = 2 THEN w2 + Len(label[2]) ELSE w1
        a == SkipChars(t, e, Whitespace \cup {":"})
        b == IF At(t, a) = "$" THEN a + 1 ELSE a
        c == SkipChars(t, b, Whitespace)
    IN  IF labelled /\ IsDigit(At(t, c)) THEN <<c, NumberEnd(t, c)>> ELSE NoMatch

\* \$?\s*(NUMBER)
MatchAmount(t, q) ==
    LET b == IF At(t, q) = "$" THEN q + 1 ELSE q
        c == SkipChars(t, b, Whitespace)
    IN  IF IsDigit(At(t, c)) THEN <<c, NumberEnd(t, c)>> ELSE NoMatch

\* \$\s*(NUMBER)
MatchDollar(t, q) ==
    LET c == SkipChars(t, q + 1, Whitespace)
    IN  IF At(t, q) = "$" /\ IsDigit(At(t, c)) THEN <<c, NumberEnd(t, c)>> ELSE NoMatch

\* (\d{1,3}(?:,\d{3})+)
MatchGrouped(t, q) ==
    LET d == q + DigitRun(t, q, 3)
        e == CommaGroups(t, d)
    IN  IF IsDigit(At(t, q)) /\ e > d THEN <<q, e>> ELSE NoMatch

\* (?:Rs\.?|PKR)\s*(\d+[,.]?\d*)
MatchRupee(t, q) ==
    LET rs == MatchAtIgnoreCase(t, q, <<"R","s">>)
        pkr == MatchAtIgnoreCase(t, q, <<"P","K","R">>)
        a == IF rs THEN (IF At(t, q + 2) = "." THEN q + 3 ELSE q + 2) ELSE q + 3
        c == SkipChars(t, a, Whitespace)
        d == c + DigitRun(t, c, Len(t))
        f == IF At(t, d) \in {",", "."} THEN d + 1 + DigitRun(t, d + 1, Len(t)) ELSE d
    IN  IF (rs \/ pkr) /\ IsDigit(At(t, c)) THEN <<c, f>> ELSE NoMatch

Match(p, t, q) ==
    CASE p.kind = "priority" -> MatchPriority(p.label, t, q)
      [] p.kind = "amount" -> MatchAmount(t, q)
      [] p.kind = "dollar" -> MatchDollar(t, q)
      [] p.kind = "grouped" -> MatchGrouped(t, q)
      [] p.kind = "rupee" -> MatchRupee(t, q)

\* re.search from index q: group 1 of the leftmost match, or NoMatch.
RECURSIVE search(_, _, _)
search(p, t, q) ==
    LET hits == {i \in q..Min({q + 15, Len(t)}) : Match(p, t, i) # NoMatch}
    IN  IF q > Len(t) THEN NoMatch
        ELSE IF hits # {} THEN Match(p, t, Min(hits))
        ELSE search(p, t, q + 16)

\* re.finditer: group 1 of the successive non-overlapping matches, in document
\* order. Every pattern ends with its group, so the next search starts there.
RECURSIVE finditer(_, _, _)
finditer(p, t, q) ==
    LET m == search(p, t, q)
    IN  IF m = NoMatch THEN <<>> ELSE <<SubSeq(t, m[1], m[2] - 1)>> \o finditer(p, t, m[2])

\* The floats of the matches whose amount_str parses; the others are skipped
\* (try: float(...) except: continue).
RECURSIVE ParsedAmounts(_)
ParsedAmounts(groups) ==
    IF Len(groups) = 0 THEN <<>>
    ELSE IF IsFloat(amount_str(Head(groups)))
         THEN <<float(amount_str(Head(groups)))>> \o ParsedAmounts(Tail(groups))
         ELSE ParsedAmounts(Tail(groups))

Range(s) == {s[i] : i \in 1..Len(s)}

\* ------------------------------------------------------------ the tables
\* InvoiceAnalyzer.__init__: the two dicts, in insertion order.
InitCurrencySymbols ==
    << [symbol |-> <<"$">>, code |-> "USD"],
       [symbol |-> <<"€">>, code |-> "EUR"],
       [symbol |-> <<"£">>, code |-> "GBP"],
       [symbol |-> <<"¥">>, code |-> "JPY"],
       [symbol |-> <<"₹">>, code |-> "INR"],
       [symbol |-> <<"R","s">>, code |-> "INR"],
       [symbol |-> <<"P","K","R">>, code |-> "PKR"] >>

InitDocumentKeywords ==
    << [doc_type |-> "invoice",
        keywords |-> << <<"i","n","v","o","i","c","e">>, <<"b","i","l","l">>, <<"i","n","v"," ","n","o">>, <<"i","n","v","o","i","c","e"," ","n","o">>, <<"i","n","v","o","i","c","e"," ","#">> >>],
       [doc_type |-> "receipt",
        keywords |-> << <<"r","e","c","e","i","p","t">>, <<"p","a","y","m","e","n","t"," ","r","e","c","e","i","v","e","d">>, <<"p","a","i","d">> >>],
       [doc_type |-> "bill",
        keywords |-> << <<"b","i","l","l">>, <<"s","t","a","t","e","m","e","n","t">>, <<"a","m","o","u","n","t"," ","d","u","e">> >>] >>

\* ----------------------------------------------------------- extractors
\* scores[doc_type] = sum(1 for keyword in keywords if keyword in text_lower)
KeywordScore(text_lower, keywords) ==
    Cardinality({k \in 1..Len(keywords) : Contains(text_lower, keywords[k])})

\* Variant: the last of the keys with the greatest score wins a tie.
_classify_document_last(t) ==
    LET text_lower == lower(t)
        scores == [i \in 1..Len(document_keywords) |->
                      KeywordScore(text_lower, document_keywords[i].keywords)]
        best == Max(Range(scores))
    IN  IF best > 0
        THEN document_keywords[Max({i \in 1..Len(scores) : scores[i] = best})].doc_type
        ELSE "invoice"

\* Variant: a text without any keyword is classified "unknown".
_classify_document_unknown(t) ==
    LET text_lower == lower(t)
        scores == [i \in 1..Len(document_keywords) |->
                      KeywordScore(text_lower, document_keywords[i].keywords)]
        best == Max(Range(scores))
    IN  IF best > 0
        THEN document_keywords[Min({i \in 1..Len(scores) : scores[i] = best})].doc_type
        ELSE "unknown"

\* max(scores, key=scores.get) returns the first key, in the dict's insertion
\* order, whose score is the greatest.
_classify_document(t) ==
    LET text_lower == lower(t)
        scores == [i \in 1..Len(document_keywords) |->
                      KeywordScore(text_lower, document_keywords[i].keywords)]
        best == Max(Range(scores))
    IN  IF best > 0
        THEN document_keywords[Min({i \in 1..Len(scores) : scores[i] = best})].doc_type
        ELSE "invoice"

\* Variant: the pattern of "total" is tried before that of "total amount".
priority_patterns_swapped ==
    << [kind |-> "priority", label |-> << <<"t","o","t","a","l">> >>],
       [kind |-> "priority", label |-> << <<"t","o","t","a","l">>, <<"a","m","o","u","n","t">> >>],
       [kind |-> "priority", label |-> << <<"a","m","o","u","n","t">>, <<"d","u","e">> >>],
       [kind |-> "priority", label |-> << <<"g","r","a","n","d">>, <<"t","o","t","a","l">> >>] >>

priority_patterns ==
    << [kind |-> "priority", label |-> << <<"t","o","t","a","l">>, <<"a","m","o","u","n","t">> >>],
       [kind |-> "priority", label |-> << <<"t","o","t","a","l">> >>],
       [kind |-> "priority", label |-> << <<"a","m","o","u","n","t">>, <<"d","u","e">> >>],
       [kind |-> "priority", label |-> << <<"g","r","a","n","d">>, <<"t","o","t","a","l">> >>] >>

amount_pattern == [kind |-> "amount"]

patterns == << [kind |-> "dollar"], [kind |-> "grouped"], [kind |-> "rupee"] >>

\* PRIORITY 1: the amounts the priority patterns find, in the order the two
\* nested loops reach them; the first one is returned.
RECURSIVE PriorityFrom(_, _, _)
PriorityFrom(ps, t, k) ==
    IF k > Len(ps) THEN <<>>
    ELSE ParsedAmounts(finditer(ps[k], t, 1)) \o PriorityFrom(ps, t, k + 1)

priority_amounts(t) == PriorityFrom(priority_patterns, t, 1)

\* context_lines = lines[max(0, i-1):min(len(lines), i+2)], for the 1-based i.
context_text(lines, i) ==
    join(<<" ">>, SubSeq(lines, Max({1, i - 1}), Min({Len(lines), i + 1})))

\* Variant: Tier 2 keeps the amounts over 10.
amounts_with_context_over_10(t) ==
    LET lines == split(t, "\n")
        near == {i \in 1..Len(lines) : Contains(lower(lines[i]), <<"t","o","t","a","l">>)}
    IN  UNION {{a \in Range(ParsedAmounts(finditer(amount_pattern, context_text(lines, i), 1))) :
                   Greater(a, Float(10))} : i \in near}

\* PRIORITY 2: amounts_with_context, as the set of its elements.
amounts_with_context(t) ==
    LET lines == split(t, "\n")
        near == {i \in 1..Len(lines) : Contains(lower(lines[i]), <<"t","o","t","a","l">>)}
    IN  UNION {{a \in Range(ParsedAmounts(finditer(amount_pattern, context_text(lines, i), 1))) :
                   Greater(a, Float(100))} : i \in near}

\* Variant: the fallback keeps an amount of exactly 10.
all_amounts_from_10(t) ==
    UNION {{a \in Range(ParsedAmounts(finditer(patterns[k], t, 1))) : ~Greater(Float(10), a)} :
              k \in 1..Len(patterns)}

\* FALLBACK: all_amounts, as the set of its elements.
all_amounts(t) ==
    UNION {{a \in Range(ParsedAmounts(finditer(patterns[k], t, 1))) : Greater(a, Float(10))} :
              k \in 1..Len(patterns)}

\* Variant: no cascade, the greatest amount any tier finds.
_extract_amount_max(t) ==
    LET found == Range(priority_amounts(t)) \cup amounts_with_context(t) \cup all_amounts(t)
    IN  IF found # {} THEN MaxFloat(found) ELSE Float(0)

_extract_amount(t) ==
    LET p1 == priority_amounts(t)
        p2 == amounts_with_context(t)
        p3 == all_amounts(t)
    IN  IF Len(p1) > 0 THEN Head(p1)
        ELSE IF p2 # {} THEN MaxFloat(p2)
        ELSE IF p3 # {} THEN MaxFloat(p3)
        ELSE Float(0)

\* Variant: the symbol occurring first in the text wins.
_extract_currency_by_position(t) ==
    LET found == {i \in 1..Len(currency_symbols) : Contains(t, currency_symbols[i].symbol)}
        pos(i) == Min({q \in 1..Len(t) : MatchAt(t, q, currency_symbols[i].symbol)})
    IN  IF found # {}
        THEN currency_symbols[CHOOSE i \in found : \A j \in found : pos(i) <= pos(j)].code
        ELSE "USD"

_extract_currency(t) ==
    LET found == {i \in 1..Len(currency_symbols) : Contains(t, currency_symbols[i].symbol)}
    IN  IF found # {} THEN currency_symbols[Min(found)].code ELSE "USD"

noise_words == << <<"i","n","v","o","i","c","e">>, <<"r","e","c","e","i","p","t">>, <<"b","i","l","l">>, <<"t","a","x">>, <<"d","a","t","e">> >>

IsNonBlank(line) == strip(line) # <<>>

\* [line.strip() for line in text.split('\n') if line.strip()]
StrippedLines(t) ==
    LET kept == SelectSeq(split(t, "\n"), IsNonBlank)
    IN  [i \in 1..Len(kept) |-> strip(kept[i])]

IsVendorLine(line) ==
    /\ Len(line) > 3
    /\ ~\E k \in 1..Len(noise_words) : Contains(lower(line), noise_words[k])

\* Variant: every line is examined, not only the first five.
_extract_vendor_any_line(t) ==
    LET lines == StrippedLines(t)
        ok == {i \in 1..Len(lines) : IsVendorLine(lines[i])}
    IN  IF ok # {} THEN SubSeq(lines[Min(ok)], 1, Min({100, Len(lines[Min(ok)])}))
        ELSE <<"U","n","k","n","o","w","n"," ","V","e","n","d","o","r">>

_extract_vendor(t) ==
    LET lines == StrippedLines(t)
        first5 == SubSeq(lines, 1, Min({5, Len(lines)}))
        ok == {i \in 1..Len(first5) : IsVendorLine(first5[i])}
    IN  IF ok # {} THEN SubSeq(first5[Min(ok)], 1, Min({100, Len(first5[Min(ok)])}))
        ELSE <<"U","n","k","n","o","w","n"," ","V","e","n","d","o","r">>

\* bool(re.search(r'\d+\.?\d*', text)): the pattern matches from the first digit.
has_amount(t) == \E q \in 1..Len(t) : DigitRun(t, q, Len(t)) >= 1

\* Variant: the keywords are looked up in the text as written, not lower-cased.
has_keywords_case_sensitive(t) ==
    \E i \in 1..Len(document_keywords) :
        \E k \in 1..Len(document_keywords[i].keywords) :
            Contains(t, document_keywords[i].keywords[k])

has_keywords(t) ==
    \E i \in 1..Len(document_keywords) :
        \E k \in 1..Len(document_keywords[i].keywords) :
            Contains(lower(t), document_keywords[i].keywords[k])

\* The confidence in tenths: 0.4, 0.3 and 0.3 are 4, 3 and 3, and 1.0 is 10.
_calculate_confidence(t) ==
    IF t = <<>> THEN 0
    ELSE LET text_length == Len(split_words(t))
             confidence ==
                 (IF has_amount(t) THEN 4 ELSE 0) + (IF has_keywords(t) THEN 3 ELSE 0)
                 + (IF text_length > 20 THEN 3 ELSE 0)
         IN  Min({confidence, 10})

\* ----------------------------------------------------------------- inputs
\* The lines an OCR result is made of.
Lines ==
    { <<>>,
      <<" ","\t">>,
      <<"A","B","C"," ","C","o","m","p","a","n","y">>,
      <<"I","n","v","o","i","c","e"," ","#","1","2","3","4","5">>,
      <<"T","o","t","a","l",":"," ","$","1","5","0",".","0","0">>,
      <<"T","o","t","a","l"," ","A","m","o","u","n","t",":"," ","$","5","0","0",".","0","0">>,
      <<"P","a","g","e"," ","3"," ","o","f"," ","1","0">>,
      <<"A","m","o","u","n","t"," ","D","u","e",":"," ","7","5">>,
      <<"G","R","A","N","D"," ","T","O","T","A","L"," ","1",",","2","3","4",".","5","0">>,
      <<"T","o","t","a","l",":"," ","€","5","0",".","0","0">>,
      <<"R","e","c","e","i","p","t"," ","-"," ","P","a","i","d">>,
      <<"S","t","a","t","e","m","e","n","t",":"," ","a","m","o","u","n","t"," ","d","u","e">>,
      <<"T","o","t","a","l"," ","p","a","y","a","b","l","e">>,
      <<"2",",","5","0","0",".","0","0"," ","$","4","0">>,
      <<"R","s","."," ","5","6","3","2">>,
      <<"T","o","t","a","l"," ","5","6","3","2">>,
      <<"B","i","l","l"," ","t","o",":"," ","P","K","R"," ","9","5","0">>,
      <<"₹","7"," ","¥","6"," ","£","5">>,
      <<"a"," ","b"," ","c"," ","d"," ","e"," ","f"," ","g"," ","h"," ","i"," ","j"," ","k"," ","l"," ","m"," ","n"," ","o"," ","p"," ","q"," ","r"," ","s"," ","t">> }

\* test_text of test_model.py.
test_text ==
    <<"\n","A","B","C"," ","C","o","m","p","a","n","y","\n","I","n","v","o","i","c","e"," ","#","1","2","3","4","5","\n","D","a","t","e",":"," ","2","0","2","4","-","0","1","-","1","5","\n","\n","I","t","e","m",":"," ","W","i","d","g","e","t","\n","A","m","o","u","n","t",":"," ","$","1","5","0",".","0","0","\n","\n","T","o","t","a","l",":"," ","$","1","5","0",".","0","0","\n">>

\* Further OCR results: five leading lines that are noise or too short before a
\* company name, indented lines, a line longer than 100 characters, a zero total,
\* totals behind a symbol other than "$", and an amount of exactly 10.
ExtraTexts ==
    { <<"I","n","v","o","i","c","e"," ","#","1","\n","T","a","x","\n","a","b","\n","D","a","t","e",":"," ","2","0","2","4","\n","R","e","c","e","i","p","t","\n","A","B","C"," ","C","o","m","p","a","n","y">>,
      <<" "," ","\n"," ","\t","X","y","z"," ","C","o"," "," ","\n","I","n","v","o","i","c","e">>,
      <<"N","o","r","t","h","w","i","n","d"," ","T","r","a","d","e","r","s"," ","I","n","t","e","r","n","a","t","i","o","n","a","l"," ","A","m","a","l","g","a","m","a","t","e","d"," ","H","o","l","d","i","n","g","s"," ","a","n","d"," ","P","a","r","t","n","e","r","s"," ","L","i","m","i","t","e","d"," ","C","o","m","p","a","n","y"," ","o","f"," ","G","r","e","a","t","e","r"," ","K","a","r","a","c","h","i"," ","C","i","t","y","\n","T","o","t","a","l",":"," ","$","1","5","0",".","0","0">>,
      <<"T","o","t","a","l",":"," ","$","0",".","0","0">>,
      <<"S","u","b","t","o","t","a","l"," ","€","2","5","0",".","0","0","\n","T","o","t","a","l"," ","d","u","e"," ","€","1",",","3","0","0",".","0","0","\n","P","a","i","d"," ","7">>,
      <<"$","1","0"," ","f","e","e","\n","R","s"," ","7">> }

Texts ==
    {join(<<"\n">>, ls) : ls \in UNION {[1..n -> Lines] : n \in 1..MaxLines}}
        \cup {test_text} \cup ExtraTexts

FilePaths == { <<"i","n","v",".","p","d","f">>, <<"S","C","A","N",".","P","D","F">>, <<"i","n","v",".","p","n","g">> }

\* str.endswith
endswith(t, suffix) ==
    Len(t) >= Len(suffix) /\ MatchAt(t, Len(t) - Len(suffix) + 1, suffix)

\* ---------------------------------------------------------- the pipeline
NoResult == <<>>

NoException == [type |-> "None", message |-> ""]

\* The exceptions the stages raise.
Cv2Error == [type |-> "cv2.error", message |-> "cv2.error: !_src.empty() in function 'cvtColor'"]

TesseractError == [type |-> "TesseractError", message |-> "tesseract failed"]

PdfError == [type |-> "PDFPageCountError", message |-> "Unable to get page count."]

NoTextError == [type |-> "ValueError", message |-> "No text could be extracted from document"]

\* Variant: the clause is `except ValueError`.
IsValueError(e) == e.type = "ValueError"

\* The classes derived from Exception, which `except Exception` catches.
IsException(e) ==
    e.type \in {"cv2.error", "TesseractError", "PDFPageCountError", "ValueError"}

\* Variant: `if not text`, without strip().
IsEmpty(t) == t = <<>>

\* if not text.strip()
IsBlank(t) == strip(t) = <<>>

\* The dict of the success return.
SuccessResult(t) ==
    [document_type |-> _classify_document(t),
     total_amount |-> _extract_amount(t),
     currency |-> _extract_currency(t),
     vendor_name |-> _extract_vendor(t),
     text |-> t,
     confidence |-> _calculate_confidence(t),
     status |-> "success"]

\* Variant: the except branch reports the vendor extractor's default.
ErrorResultVendorDefault(e) ==
    [document_type |-> "unknown",
     total_amount |-> Float(0),
     currency |-> "USD",
     vendor_name |-> <<"U","n","k","n","o","w","n"," ","V","e","n","d","o","r">>,
     text |-> <<>>,
     confidence |-> 0,
     status |-> "error",
     error |-> e.message]

\* The dict of the except branch; str(e) is the exception's message.
ErrorResult(e) ==
    [document_type |-> "unknown",
     total_amount |-> Float(0),
     currency |-> "USD",
     vendor_name |-> <<"U","n","k","n","o","w","n">>,
     text |-> <<>>,
     confidence |-> 0,
     status |-> "error",
     error |-> e.message]

Init ==
    /\ pc = "idle"
    /\ filepath = <<>>
    /\ img = "None"
    /\ text = <<>>
    /\ result = NoResult
    /\ log = <<>>
    /\ exc = NoException
    /\ currency_symbols = InitCurrencySymbols
    /\ document_keywords = InitDocumentKeywords
    /\ out = <<>>

\* analyze_document(filepath) is entered: the branch on the file type.
Call(fp) ==
    /\ pc \in {"idle", "returned"}
    /\ filepath' = fp
    /\ pc' = IF endswith(lower(fp), <<".","p","d","f">>) THEN "pdf_convert" ELSE "img_imread"
    /\ img' = "None"
    /\ text' = <<>>
    /\ result' = NoResult
    /\ log' = <<>>
    /\ exc' = NoException
    /\ UNCHANGED <<currency_symbols, document_keywords, out>>

\* An exception raised in the try block of analyze_document, by a stage that does
\* not catch it itself: control goes to the except clause if it catches e, and to
\* the caller otherwise.
Raise(stage, e) ==
    /\ exc' = e
    /\ pc' = IF IsException(e) THEN "except" ELSE "raised"
    /\ log' = Append(log, stage)
    /\ UNCHANGED <<filepath, img, text, result, currency_symbols, document_keywords, out>>

\* img = cv2.imread(filepath): None when the file cannot be read or decoded.
ImRead ==
    /\ pc = "img_imread"
    /\ \E decoded \in BOOLEAN : img' = IF decoded THEN "bgr" ELSE "None"
    /\ pc' = "img_cvtColor"
    /\ log' = Append(log, "imread")
    /\ UNCHANGED <<filepath, text, result, exc, currency_symbols, document_keywords, out>>

\* gray = cv2.cvtColor(img, cv2.COLOR_BGR2GRAY): raises cv2.error on None.
CvtColor ==
    /\ pc = "img_cvtColor"
    /\ IF img = "None"
       THEN Raise("cvtColor", Cv2Error)
       ELSE /\ img' = "gray"
            /\ pc' = "img_threshold"
            /\ log' = Append(log, "cvtColor")
            /\ UNCHANGED <<filepath, text, result, exc, currency_symbols, document_keywords, out>>

\* gray = cv2.threshold(gray, 0, 255, THRESH_BINARY | THRESH_OTSU)[1]
Threshold ==
    /\ pc = "img_threshold"
    /\ img' = "binary"
    /\ pc' = "img_medianBlur"
    /\ log' = Append(log, "threshold")
    /\ UNCHANGED <<filepath, text, result, exc, currency_symbols, document_keywords, out>>

\* gray = cv2.medianBlur(gray, 3)
MedianBlur ==
    /\ pc = "img_medianBlur"
    /\ img' = "denoised"
    /\ pc' = "img_ocr"
    /\ log' = Append(log, "medianBlur")
    /\ UNCHANGED <<filepath, text, result, exc, currency_symbols, document_keywords, out>>

\* text = pytesseract.image_to_string(gray); return text
ImageOcr ==
    /\ pc = "img_ocr"
    /\ \/ \E t \in Texts :
            /\ text' = t
            /\ pc' = "check"
            /\ log' = Append(log, "image_to_string")
            /\ UNCHANGED <<filepath, img, result, exc, currency_symbols, document_keywords, out>>
       \/ Raise("image_to_string", TesseractError)

\* _extract_text_from_pdf returns "": if not images: return "".
PdfReturnEmpty(stages) ==
    /\ text' = <<>>
    /\ pc' = "check"
    /\ log' = log \o stages
    /\ UNCHANGED <<filepath, img, result, exc, currency_symbols, document_keywords, out>>

\* An exception raised inside _extract_text_from_pdf is caught there:
\* except Exception as e: print(...); return "".
PdfCaught(stage, e) ==
    /\ exc' = e
    /\ text' = <<>>
    /\ pc' = "check"
    /\ log' = log \o <<stage, "except:_extract_text_from_pdf">>
    /\ UNCHANGED <<filepath, img, result, currency_symbols, document_keywords, out>>

\* images = pdf2image.convert_from_path(filepath, dpi=300, first_page=1, last_page=1)
PdfConvert ==
    /\ pc = "pdf_convert"
    /\ \/ /\ img' = "page1"
          /\ pc' = "pdf_ocr"
          /\ log' = Append(log, "convert_from_path")
          /\ UNCHANGED <<filepath, text, result, exc, currency_symbols, document_keywords, out>>
       \/ PdfReturnEmpty(<<"convert_from_path">>)
       \/ PdfCaught("convert_from_path", PdfError)

\* text = pytesseract.image_to_string(images[0]); return text
PdfOcr ==
    /\ pc = "pdf_ocr"
    /\ \/ \E t \in Texts :
            /\ text' = t
            /\ pc' = "check"
            /\ log' = Append(log, "image_to_string")
            /\ UNCHANGED <<filepath, img, result, exc, currency_symbols, document_keywords, out>>
       \/ PdfCaught("image_to_string", TesseractError)

\* Variant: on blank text the OCR stage is run again.
CheckTextRetry ==
    /\ pc = "check"
    /\ pc' = IF ~IsBlank(text) THEN "analyze"
             ELSE IF endswith(lower(filepath), <<".","p","d","f">>) THEN "pdf_ocr" ELSE "img_ocr"
    /\ log' = Append(log, "strip")
    /\ UNCHANGED <<filepath, img, text, result, exc, currency_symbols, document_keywords, out>>

\* if not text.strip(): raise ValueError(...)
CheckText ==
    /\ pc = "check"
    /\ IF IsBlank(text)
       THEN Raise("strip", NoTextError)
       ELSE /\ pc' = "analyze"
            /\ log' = Append(log, "strip")
            /\ UNCHANGED <<filepath, img, text, result, exc, currency_symbols, document_keywords, out>>

\* The five extractors over text, and the success dict.
Analyze ==
    /\ pc = "analyze"
    /\ result' = SuccessResult(text)
    /\ pc' = "returned"
    /\ log' = log \o <<"_classify_document", "_extract_amount", "_extract_currency",
                       "_extract_vendor", "_calculate_confidence">>
    /\ UNCHANGED <<filepath, img, text, exc, currency_symbols, document_keywords, out>>

\* except Exception as e: the error dict.
Except ==
    /\ pc = "except"
    /\ result' = ErrorResult(exc)
    /\ pc' = "returned"
    /\ log' = Append(log, "except:analyze_document")
    /\ UNCHANGED <<filepath, img, text, exc, currency_symbols, document_keywords, out>>

Next ==
    \/ \E fp \in FilePaths : Call(fp)
    \/ ImRead
    \/ CvtColor
    \/ Threshold
    \/ MedianBlur
    \/ ImageOcr
    \/ PdfConvert
    \/ PdfOcr
    \/ CheckText
    \/ Analyze
    \/ Except

Spec == Init /\ [][Next]_vars

\* The positions of a call that hold a statement of the pipeline.
StagePositions ==
    {"img_imread", "img_cvtColor", "img_threshold", "img_medianBlur", "img_ocr",
     "pdf_convert", "pdf_ocr", "check", "analyze", "except"}

\* The pipeline is synchronous: a call that stands at a statement executes it,
\* and every library call returns or raises. Each statement moves pc, so the
\* fairness is stated on pc alone.
Advance == pc \in StagePositions /\ pc' \in StagePositions \cup {"returned"}

FairSpec == Spec /\ WF_pc(Advance)

\* ------------------------------------------------------- test_model.py
\* analyzer = InvoiceAnalyzer(), and a text in place of test_text.
TestInit ==
    /\ pc = "test_classify"
    /\ text \in Texts
    /\ filepath = <<>>
    /\ img = "None"
    /\ result = NoResult
    /\ log = <<>>
    /\ exc = NoException
    /\ currency_symbols = InitCurrencySymbols
    /\ document_keywords = InitDocumentKeywords
    /\ out = <<>>

\* Variant: an extractor call consumes the first entry of the keyword table.
TestStepConsuming(at, key, value, then) ==
    /\ pc = at
    /\ out' = (key :> value) @@ out
    /\ pc' = then
    /\ document_keywords' = Tail(document_keywords)
    /\ UNCHANGED <<filepath, img, text, result, log, exc, currency_symbols>>

TestStep(at, key, value, then) ==
    /\ pc = at
    /\ out' = (key :> value) @@ out
    /\ pc' = then
    /\ UNCHANGED <<filepath, img, text, result, log, exc, currency_symbols, document_keywords>>

TestClassify ==
    TestStep("test_classify", "document_type", _classify_document(text), "test_amount")

TestAmount ==
    TestStep("test_amount", "total_amount", _extract_amount(text), "test_currency")

TestCurrency ==
    TestStep("test_currency", "currency", _extract_currency(text), "test_vendor")

TestVendor ==
    TestStep("test_vendor", "vendor_name", _extract_vendor(text), "test_confidence")

TestConfidence ==
    TestStep("test_confidence", "confidence", _calculate_confidence(text), "test_done")

TestNext == TestClassify \/ TestAmount \/ TestCurrency \/ TestVendor \/ TestConfidence

TestSpec == TestInit /\ [][TestNext]_vars

\* ------------------------------------------ one analyzer, many invocations
\* The extractor calls of test_model.py are made again, on the same analyzer
\* and the same text.
TestAgain ==
    /\ pc = "test_done"
    /\ pc' = "test_classify"
    /\ UNCHANGED <<filepath, img, text, result, log, exc, currency_symbols,
                   document_keywords, out>>

\* analyzer.analyze_document(filepath), the whole call, on a document whose OCR
\* text is `text`, between two extractor calls of the harness or after them.
AnalyzeText ==
    /\ pc \in {"test_currency", "test_done"}
    /\ result' = IF IsBlank(text) THEN ErrorResult(NoTextError) ELSE SuccessResult(text)
    /\ UNCHANGED <<pc, filepath, img, text, log, exc, currency_symbols,
                   document_keywords, out>>

SharedNext == TestNext \/ TestAgain \/ AnalyzeText

SharedSpec == TestInit /\ [][SharedNext]_vars

\* ================================================================ claims
IsPdf == endswith(lower(filepath), <<".","p","d","f">>)

InCall == pc \notin {"idle", "returned"}

ExtractorStages ==
    {"_classify_document", "_extract_amount", "_extract_currency", "_extract_vendor",
     "_calculate_confidence"}

\* C1: analyze_document never raises: no exception reaches the caller, every call
\* that has started returns, and what it returns has status "success" or "error".
C1_NeverRaises ==
    /\ [](pc # "raised")
    /\ [](pc = "returned" => result.status \in {"success", "error"})
    /\ (InCall ~> pc = "returned")

\* An image call whose OCR raised has returned an error result.
C1_Witness ==
    /\ pc = "returned"
    /\ ~IsPdf
    /\ exc = TesseractError
    /\ result.status = "error"

SuccessKeys ==
    {"document_type", "total_amount", "currency", "vendor_name", "text", "confidence",
     "status"}

\* C2: a returned result is either a success dict without an error field, holding
\* the five extractors' values over the extracted text, or an error dict with the
\* cause and exactly the default values; the error field is there iff status is
\* "error".
C2_TwoShapes ==
    pc = "returned" =>
        /\ ("error" \in DOMAIN result) <=> (result.status = "error")
        /\ \/ /\ result.status = "success"
              /\ DOMAIN result = SuccessKeys
              /\ exc = NoException
              /\ result.text = text
              /\ result.document_type = _classify_document(text)
              /\ result.total_amount = _extract_amount(text)
              /\ result.currency = _extract_currency(text)
              /\ result.vendor_name = _extract_vendor(text)
              /\ result.confidence = _calculate_confidence(text)
           \/ /\ result.status = "error"
              /\ DOMAIN result = SuccessKeys \cup {"error"}
              /\ exc # NoException
              /\ result.error = exc.message
              /\ result.document_type = "unknown"
              /\ result.total_amount = Float(0)
              /\ result.currency = "USD"
              /\ result.vendor_name = <<"U","n","k","n","o","w","n">>
              /\ result.text = <<>>
              /\ result.confidence = 0

\* A call has returned the error shape after an undecodable image.
C2_Witness ==
    /\ pc = "returned"
    /\ exc = Cv2Error
    /\ "error" \in DOMAIN result

AllBlank(t) == \A i \in 1..Len(t) : t[i] \in Whitespace

\* C3: when the text-extraction stage returned an empty or whitespace-only text
\* (a PDF of zero pages included), no extractor has run and the result is the
\* error dict with the message that no text could be extracted.
C3_BlankText ==
    (pc = "returned" /\ "strip" \in Range(log) /\ AllBlank(text)) =>
        /\ Range(log) \cap ExtractorStages = {}
        /\ result.status = "error"
        /\ result.total_amount = Float(0)
        /\ result.currency = "USD"
        /\ result.vendor_name = <<"U","n","k","n","o","w","n">>
        /\ result.error = "No text could be extracted from document"

\* An image whose OCR text is blank but not empty has been answered.
C3_Witness ==
    /\ pc = "returned"
    /\ ~IsPdf
    /\ text # <<>>
    /\ AllBlank(text)
    /\ result.status = "error"

DocumentTypes == {"invoice", "receipt", "bill"}

\* C4 as stated: every returned result, success or error, has a document_type
\* among invoice, receipt, bill.
C4_Original == pc = "returned" => result.document_type \in DocumentTypes

\* C4 as amended: a success result has a document_type among invoice, receipt,
\* bill; an error result has document_type "unknown"; it is never empty.
C4_DocumentType ==
    pc = "returned" =>
        /\ result.status = "success" => result.document_type \in DocumentTypes
        /\ result.status = "error" => result.document_type = "unknown"
        /\ result.document_type # ""

\* A text without any keyword has been classified by a successful call.
C4_Witness ==
    /\ pc = "returned"
    /\ result.status = "success"
    /\ text = <<"A","B","C"," ","C","o","m","p","a","n","y">>
    /\ result.document_type = "invoice"

ContainsDigit(t) == \E i \in 1..Len(t) : t[i] \in Digits

\* The keywords of every category of the table.
AllKeywords == UNION {Range(document_keywords[i].keywords) : i \in 1..Len(document_keywords)}

ContainsKeyword(t) == \E kw \in AllKeywords : Contains(lower(t), kw)

\* The number of whitespace-delimited words: the positions where a word begins.
WordCount(t) ==
    Cardinality({i \in 1..Len(t) :
                    t[i] \notin Whitespace /\ (i = 1 \/ t[i - 1] \in Whitespace)})

\* C5: the confidence (in tenths) is min(10, 4*[a digit occurs] + 3*[a keyword of
\* some category occurs in the lower-cased text] + 3*[more than 20 words]); it
\* lies within 0..10, and the empty text scores 0.
C5_Confidence ==
    "confidence" \in DOMAIN out =>
        /\ out.confidence =
               Min({10, (IF ContainsDigit(text) THEN 4 ELSE 0)
                        + (IF ContainsKeyword(text) THEN 3 ELSE 0)
                        + (IF WordCount(text) > 20 THEN 3 ELSE 0)})
        /\ out.confidence \in 0..10
        /\ text = <<>> => out.confidence = 0

\* A text with a digit, a keyword written in capitals and more than 20 words has
\* been scored 1.0.
C5_Witness ==
    /\ "confidence" \in DOMAIN out
    /\ WordCount(text) > 20
    /\ ContainsKeyword(text)
    /\ ~\E kw \in AllKeywords : Contains(text, kw)
    /\ out.confidence = 10

\* C6: the tiers are a strict cascade. When Tier 1 finds an amount it is the
\* result, whatever other numbers the text holds; Tier 2's maximum is the result
\* only when Tier 1 found nothing, Tier 3's only when Tier 2 found nothing either,
\* and 0.0 when no tier found anything. "Total Amount: $500.00" with
\* "Page 3 of 10" gives 500.0.
C6_Cascade ==
    "total_amount" \in DOMAIN out =>
        LET tier1 == priority_amounts(text)
            tier2 == amounts_with_context(text)
            tier3 == all_amounts(text)
        IN  /\ Len(tier1) > 0 => out.total_amount = Head(tier1)
            /\ (Len(tier1) = 0 /\ tier2 # {}) => out.total_amount = MaxFloat(tier2)
            /\ (Len(tier1) = 0 /\ tier2 = {} /\ tier3 # {}) => out.total_amount = MaxFloat(tier3)
            /\ (Len(tier1) = 0 /\ tier2 = {} /\ tier3 = {}) => out.total_amount = Float(0)
            /\ text = <<"T","o","t","a","l"," ","A","m","o","u","n","t",":"," ","$","5","0","0",".","0","0","\n","P","a","g","e"," ","3"," ","o","f"," ","1","0">> => out.total_amount = Float(500)

\* Tier 1's amount has been returned although the fallback patterns find a
\* greater one in the text.
C6_Witness ==
    /\ "total_amount" \in DOMAIN out
    /\ Len(priority_amounts(text)) > 0
    /\ out.total_amount = Float(150)
    /\ Float(2500) \in all_amounts(text)

\* The labels of Tier 1 in the order the claim gives them.
C7_Labels ==
    << << <<"t","o","t","a","l">>, <<"a","m","o","u","n","t">> >>, << <<"t","o","t","a","l">> >>, << <<"a","m","o","u","n","t">>, <<"d","u","e">> >>,
       << <<"g","r","a","n","d">>, <<"t","o","t","a","l">> >> >>

C7_FirstMatch(k, t) == search([kind |-> "priority", label |-> C7_Labels[k]], t, 1)

\* C7: with k the first label, in the order total amount, total, amount due,
\* grand total, whose pattern matches anywhere in the text, the result is the
\* number of that pattern's first match in document order, commas stripped.
C7_PriorityOrder ==
    "total_amount" \in DOMAIN out =>
        \A k \in 1..Len(C7_Labels) :
            (/\ C7_FirstMatch(k, text) # NoMatch
             /\ \A j \in 1..(k - 1) : C7_FirstMatch(j, text) = NoMatch)
            => LET m == C7_FirstMatch(k, text)
               IN  out.total_amount = float(amount_str(SubSeq(text, m[1], m[2] - 1)))

\* "total amount" has won over a "total" that occurs earlier in the text.
C7_Witness ==
    /\ "total_amount" \in DOMAIN out
    /\ text = <<"T","o","t","a","l",":"," ","$","1","5","0",".","0","0","\n","T","o","t","a","l"," ","A","m","o","u","n","t",":"," ","$","5","0","0",".","0","0">>
    /\ out.total_amount = Float(500)

\* The labels and numbers of the texts "<label>: <symbol><number>".
C8_Labels == { <<"T","o","t","a","l"," ","A","m","o","u","n","t">>, <<"T","o","t","a","l">>, <<"A","m","o","u","n","t"," ","D","u","e">>, <<"G","r","a","n","d"," ","T","o","t","a","l">> }

C8_Numbers == { <<"5","0",".","0","0">>, <<"1","5","0",".","0","0">>, <<"5","0","0",".","0","0">> }

\* C8 as stated: for every label, every symbol of the currency table and every
\* number, the text "<label>: <symbol><number>" is matched by Tier 1 and gives
\* the number.
C8_AnySymbol ==
    "total_amount" \in DOMAIN out =>
        \A label \in C8_Labels : \A i \in 1..Len(currency_symbols) : \A number \in C8_Numbers :
            text = label \o <<":"," ">> \o currency_symbols[i].symbol \o number
            => /\ Len(priority_amounts(text)) > 0
               /\ out.total_amount = float(number)

C9_Order == << "invoice", "receipt", "bill" >>

\* The number of distinct keywords of a category that occur in the lower-cased text.
C9_Score(category, t) ==
    LET entry == CHOOSE e \in Range(document_keywords) : e.doc_type = category
    IN  Cardinality({kw \in Range(entry.keywords) : Contains(lower(t), kw)})

\* C9: the document type is the first category, in the order invoice, receipt,
\* bill, whose score is the greatest; it is invoice when every score is 0.
C9_Classify ==
    "document_type" \in DOMAIN out =>
        LET best == Max({C9_Score(C9_Order[i], text) : i \in 1..3})
            first == Min({i \in 1..3 : C9_Score(C9_Order[i], text) = best})
        IN  /\ out.document_type = C9_Order[first]
            /\ best = 0 => out.document_type = "invoice"

\* receipt and bill tie for the greatest score, and receipt has been returned.
C9_Witness ==
    /\ "document_type" \in DOMAIN out
    /\ C9_Score("receipt", text) = C9_Score("bill", text)
    /\ C9_Score("receipt", text) > C9_Score("invoice", text)
    /\ out.document_type = "receipt"

C10_Table ==
    << << <<"$">>, "USD" >>, << <<"€">>, "EUR" >>, << <<"£">>, "GBP" >>, << <<"¥">>, "JPY" >>,
       << <<"₹">>, "INR" >>, << <<"R","s">>, "INR" >>, << <<"P","K","R">>, "PKR" >> >>

C10_Present(t) == {i \in 1..Len(C10_Table) : Contains(t, C10_Table[i][1])}

\* C10: the currency is the code of the first symbol, in the order $, €, £, ¥, ₹,
\* Rs, PKR, that occurs in the text, wherever it occurs, and USD when none does;
\* a text with € alone gives EUR, a text with € and $ gives USD.
C10_Currency ==
    "currency" \in DOMAIN out =>
        /\ out.currency =
               IF C10_Present(text) = {} THEN "USD" ELSE C10_Table[Min(C10_Present(text))][2]
        /\ C10_Present(text) = {2} => out.currency = "EUR"
        /\ {1, 2} \subseteq C10_Present(text) => out.currency = "USD"

\* The text holds € before $, and USD has been returned.
C10_Witness ==
    /\ "currency" \in DOMAIN out
    /\ text = <<"T","o","t","a","l",":"," ","€","5","0",".","0","0","\n","T","o","t","a","l",":"," ","$","1","5","0",".","0","0">>
    /\ out.currency = "USD"

C11_Noise == { <<"i","n","v","o","i","c","e">>, <<"r","e","c","e","i","p","t">>, <<"b","i","l","l">>, <<"t","a","x">>, <<"d","a","t","e">> }

\* The non-empty lines of the text, trimmed, in order.
C11_Lines(t) ==
    LET all == split(t, "\n")
    IN  SelectSeq([i \in 1..Len(all) |-> strip(all[i])], LAMBDA l : l # <<>>)

C11_Qualifies(line) ==
    Len(line) > 3 /\ \A w \in C11_Noise : ~Contains(lower(line), w)

\* C11: the vendor is the first of the first 5 non-empty trimmed lines that is
\* longer than 3 characters and holds no noise word, cut to 100 characters, and
\* "Unknown Vendor" when none of those 5 qualifies, whatever the later lines are;
\* it never exceeds 100 characters.
C11_Vendor ==
    "vendor_name" \in DOMAIN out =>
        LET lines == C11_Lines(text)
            ok == {i \in 1..Len(lines) : i <= 5 /\ C11_Qualifies(lines[i])}
        IN  /\ ok # {} =>
                   /\ Len(lines[Min(ok)]) <= 100 => out.vendor_name = lines[Min(ok)]
                   /\ Len(lines[Min(ok)]) > 100 =>
                          out.vendor_name = SubSeq(lines[Min(ok)], 1, 100)
            /\ ok = {} => out.vendor_name = <<"U","n","k","n","o","w","n"," ","V","e","n","d","o","r">>
            /\ Len(out.vendor_name) <= 100

\* The sixth line would qualify, none of the first five does, and "Unknown
\* Vendor" has been returned.
C11_Witness ==
    /\ "vendor_name" \in DOMAIN out
    /\ Len(C11_Lines(text)) > 5
    /\ C11_Qualifies(C11_Lines(text)[6])
    /\ out.vendor_name = <<"U","n","k","n","o","w","n"," ","V","e","n","d","o","r">>

\* C12 as stated: the amount is never negative, and it is 0.0 only when none of
\* the three tiers finds an amount in the text.
C12_ZeroMeansNotFound ==
    "total_amount" \in DOMAIN out =>
        /\ out.total_amount.n >= 0
        /\ out.total_amount = Float(0) =>
               /\ Len(priority_amounts(text)) = 0
               /\ amounts_with_context(text) = {}
               /\ all_amounts(text) = {}

C13_Fields == {"document_type", "total_amount", "currency", "vendor_name", "confidence"}

C14_LineAmounts(line) == Range(ParsedAmounts(finditer([kind |-> "amount"], line, 1)))

\* The amounts over 100 of the lines within one line of a line containing "total".
C14_Collected(t) ==
    LET lines == split(t, "\n")
        total == {i \in 1..Len(lines) :
                     \E q \in 1..Len(lines[i]) : MatchAtIgnoreCase(lines[i], q, <<"t","o","t","a","l">>)}
        near == {j \in 1..Len(lines) : \E i \in total : j \in {i - 1, i, i + 1}}
    IN  {a \in UNION {C14_LineAmounts(lines[j]) : j \in near} : Greater(a, Float(100))}

C15_Kinds == {"dollar", "grouped", "rupee"}

\* The amounts over 10 among the "$"-prefixed amounts, the comma-grouped bare
\* numbers and the "Rs"/"PKR"-prefixed amounts of the whole text.
C15_Found(t) ==
    {a \in UNION {Range(ParsedAmounts(finditer([kind |-> k], t, 1))) : k \in C15_Kinds} :
        Greater(a, Float(10))}

C16_Handlers == {"except:_extract_text_from_pdf", "except:analyze_document"}

\* C16 as stated: a failure raised in a stage goes to the except clause of
\* analyze_document and to no handler before it, is caught there once, and the
\* error result carries its message.
C16_CaughtOnceAtBoundary ==
    /\ [][(exc' # exc /\ exc' # NoException) => pc' = "except"]_vars
    /\ [](pc = "returned" /\ exc # NoException =>
              /\ result.status = "error"
              /\ result.error = exc.message
              /\ SelectSeq(log, LAMBDA s : s \in C16_Handlers) = <<"except:analyze_document">>)

C17_StageNames ==
    {"imread", "cvtColor", "threshold", "medianBlur", "convert_from_path", "image_to_string"}

C17_Order ==
    IF IsPdf THEN <<"convert_from_path", "image_to_string">>
    ELSE <<"imread", "cvtColor", "threshold", "medianBlur", "image_to_string">>

C17_Extractors ==
    <<"_classify_document", "_extract_amount", "_extract_currency", "_extract_vendor",
      "_calculate_confidence">>

\* C17: the stages of a call run in the order of the file type, each at most
\* once; OCR runs on the rendered page 1 or on the denoised binary image; and
\* the extractors run only after OCR and the blank check, on the non-blank text
\* OCR returned.
C17_StageOrder ==
    LET stages == SelectSeq(log, LAMBDA s : s \in C17_StageNames)
        extractors == SelectSeq(log, LAMBDA s : s \in Range(C17_Extractors))
    IN  /\ Len(stages) <= Len(C17_Order)
        /\ stages = SubSeq(C17_Order, 1, Len(stages))
        /\ "image_to_string" \in Range(log) => img = IF IsPdf THEN "page1" ELSE "denoised"
        /\ extractors # <<>> =>
               /\ extractors = C17_Extractors
               /\ SubSeq(log, 1, Len(log) - 5) = C17_Order \o <<"strip">>
               /\ ~AllBlank(text)
               /\ result.status = "success"
               /\ result.text = text

\* An image call has run every stage and every extractor.
C17_Witness ==
    /\ pc = "returned"
    /\ ~IsPdf
    /\ text = test_text
    /\ log = C17_Order \o <<"strip">> \o C17_Extractors

\* The numeric tokens of the text: the spans of digits, "," and "." that begin
\* and end with a digit and have no digit before or after them.
C18_Tokens(t) ==
    UNION {{SubSeq(t, i, e) : e \in {e \in i..Len(t) :
                                  /\ IsDigit(t[i]) /\ IsDigit(t[e])
                                  /\ ~IsDigit(At(t, i - 1)) /\ ~IsDigit(At(t, e + 1))
                                  /\ \A k \in i..e : IsDigit(t[k]) \/ t[k] \in {",", "."}}} :
              i \in 1..Len(t)}

\* C18 as stated: a returned amount is the value of a complete number of the
\* text, with no further digit of the token before or after the matched digits.
C18_CompleteNumber ==
    ("total_amount" \in DOMAIN out /\ out.total_amount # Float(0)) =>
        \E tok \in C18_Tokens(text) :
            IsFloat(amount_str(tok)) /\ float(amount_str(tok)) = out.total_amount

====
